---- MODULE Spec2Model ----
(***************************************************************************)
(* A model of revaultd's global state module (src/daemon/revaultd.rs):     *)
(*   - the VaultStatus enumeration and its three encodings,                *)
(*   - RevaultD::from_config and read_or_create_noise_key, run by several  *)
(*     processes against one file system,                                  *)
(*   - the gap-limit address accessors of RevaultD,                        *)
(*   - the life of one _Vault.                                             *)
(* Each part has its own specification (SpecStatus, SpecKey, SpecAddr,     *)
(* SpecVault); the variables of the other parts stay at their initial      *)
(* value.                                                                  *)
(***************************************************************************)
EXTENDS Integers, Sequences, FiniteSets, TLC

VARIABLES
    vs,         \* VaultStatus conversions: the values handed to / returned by them
    file,       \* the noise_secret file: NoFile or [mode, content]
    file0,      \* the noise_secret file before the first invocation (never changes)
    dir_exists, \* whether the data directory exists
    pc,         \* per invocation of from_config: the place it has reached
    cfg,        \* the Config the invocations are called with
    secret,     \* per invocation: the local noise_secret of read_or_create_noise_key
    wpos,       \* per invocation: the offset of its write-only descriptor
    key_ret,    \* per invocation: what read_or_create_noise_key returned
    ret,        \* per invocation: what from_config returned (or how it aborted)
    creators,   \* the invocations whose create_new open succeeded
    late,       \* the invocations that entered read_or_create_noise_key after a
                \* creator had stopped short of its 32 bytes
    revaultd,   \* the RevaultD the address accessors are called on
    answer,     \* the last value returned by an address accessor
    vault,      \* one _Vault
    role        \* our role for that vault

vars == <<vs, file, file0, dir_exists, pc, cfg, secret, wpos, key_ret, ret, creators, late,
          revaultd, answer, vault, role>>

statusVars == <<vs>>
keyVars    == <<file, file0, dir_exists, pc, cfg, secret, wpos, key_ret, ret, creators,
               late>>
addrVars   == <<revaultd, answer>>
vaultVars  == <<vault, role>>

\* Option<T>
None == [kind |-> "None"]
Some(v) == [kind |-> "Some", val |-> v]

(***************************************************************************)
(* VaultStatus                                                             *)
(***************************************************************************)

\* The enum declaration, in order: `s as u32` is the position, from 0.
VaultStatusDecl ==
    << "Unconfirmed", "Funded", "Secured", "Active", "Unvaulting", "Unvaulted",
       "Canceling", "Canceled", "EmergencyVaulting", "EmergencyVaulted",
       "UnvaultEmergencyVaulting", "UnvaultEmergencyVaulted",
       "Spendable", "Spending", "Spent" >>

VaultStatus == { VaultStatusDecl[i] : i \in 1..Len(VaultStatusDecl) }

\* The integer code of a status: its position in the declaration.
Discriminant(s) == (CHOOSE i \in 1..Len(VaultStatusDecl) : VaultStatusDecl[i] = s) - 1

Ok(v) == [kind |-> "Ok", val |-> v]
Err(e) == [kind |-> "Err", err |-> e]

\* A plausible slip: the codes follow the pipeline order of the documentation
\* (Spendable, Spending, Spent right after Unvaulted), not the declaration.
TryFromU32_PipelineOrder(n) ==
    CASE n = 0  -> Ok("Unconfirmed")
      [] n = 1  -> Ok("Funded")
      [] n = 2  -> Ok("Secured")
      [] n = 3  -> Ok("Active")
      [] n = 4  -> Ok("Unvaulting")
      [] n = 5  -> Ok("Unvaulted")
      [] n = 6  -> Ok("Spendable")
      [] n = 7  -> Ok("Spending")
      [] n = 8  -> Ok("Spent")
      [] n = 9  -> Ok("Canceling")
      [] n = 10 -> Ok("Canceled")
      [] n = 11 -> Ok("EmergencyVaulting")
      [] n = 12 -> Ok("EmergencyVaulted")
      [] n = 13 -> Ok("UnvaultEmergencyVaulting")
      [] n = 14 -> Ok("UnvaultEmergencyVaulted")
      [] OTHER  -> Err("()")

\* TryFrom<u32>: the match of lines 79-96.
TryFromU32(n) ==
    CASE n = 0  -> Ok("Unconfirmed")
      [] n = 1  -> Ok("Funded")
      [] n = 2  -> Ok("Secured")
      [] n = 3  -> Ok("Active")
      [] n = 4  -> Ok("Unvaulting")
      [] n = 5  -> Ok("Unvaulted")
      [] n = 6  -> Ok("Canceling")
      [] n = 7  -> Ok("Canceled")
      [] n = 8  -> Ok("EmergencyVaulting")
      [] n = 9  -> Ok("EmergencyVaulted")
      [] n = 10 -> Ok("UnvaultEmergencyVaulting")
      [] n = 11 -> Ok("UnvaultEmergencyVaulted")
      [] n = 12 -> Ok("Spendable")
      [] n = 13 -> Ok("Spending")
      [] n = 14 -> Ok("Spent")
      [] OTHER  -> Err("()")

\* FromStr: the match of lines 104-121 (the spelling "unvaultermergency..."
\* is the source's).
FromStr(s) ==
    CASE s = "unconfirmed"               -> Ok("Unconfirmed")
      [] s = "funded"                    -> Ok("Funded")
      [] s = "secured"                   -> Ok("Secured")
      [] s = "active"                    -> Ok("Active")
      [] s = "unvaulting"                -> Ok("Unvaulting")
      [] s = "unvaulted"                 -> Ok("Unvaulted")
      [] s = "canceling"                 -> Ok("Canceling")
      [] s = "canceled"                  -> Ok("Canceled")
      [] s = "emergencyvaulting"         -> Ok("EmergencyVaulting")
      [] s = "emergencyvaulted"          -> Ok("EmergencyVaulted")
      [] s = "unvaultermergencyvaulting" -> Ok("UnvaultEmergencyVaulting")
      [] s = "unvaultermergencyvaulted"  -> Ok("UnvaultEmergencyVaulted")
      [] s = "spendable"                 -> Ok("Spendable")
      [] s = "spending"                  -> Ok("Spending")
      [] s = "spent"                     -> Ok("Spent")
      [] OTHER                           -> Err("()")

\* Display: the match of lines 130-146.
Display(s) ==
    CASE s = "Unconfirmed"              -> "unconfirmed"
      [] s = "Funded"                   -> "funded"
      [] s = "Secured"                  -> "secured"
      [] s = "Active"                   -> "active"
      [] s = "Unvaulting"               -> "unvaulting"
      [] s = "Unvaulted"                -> "unvaulted"
      [] s = "Canceling"                -> "canceling"
      [] s = "Canceled"                 -> "canceled"
      [] s = "EmergencyVaulting"        -> "emergencyvaulting"
      [] s = "EmergencyVaulted"         -> "emergencyvaulted"
      [] s = "UnvaultEmergencyVaulting" -> "unvaultermergencyvaulting"
      [] s = "UnvaultEmergencyVaulted"  -> "unvaultermergencyvaulted"
      [] s = "Spendable"                -> "spendable"
      [] s = "Spending"                 -> "spending"
      [] s = "Spent"                    -> "spent"

\* Strings that are no status's Display: the correct spelling of the two
\* misspelt names, a capitalised name, the empty string.
ForeignStrings ==
    { "unvaultemergencyvaulting", "unvaultemergencyvaulted", "Active", "", "unknown" }

\* How many codes beyond the last status the model tries.
MaxForeignCode == 2

Codes == 0 .. (Len(VaultStatusDecl) - 1 + MaxForeignCode)

\* vs holds one conversion chain: a status, its string and code, and what
\* parsing them back gave; plus a string / a code from outside and its parse.
VsEmpty ==
    [status |-> None, shown |-> None, reparsed |-> None,
     code |-> None, decoded |-> None,
     text |-> None, parsed |-> None, number |-> None, converted |-> None]

\* A status value enters (read from a _Vault, say).
LoadStatus(s) ==
    /\ vs' = [VsEmpty EXCEPT !.status = Some(s)]
    /\ UNCHANGED <<keyVars, addrVars, vaultVars>>

\* to_string() on the status.
ShowStatus ==
    /\ vs.status # None
    /\ vs.shown = None
    /\ vs' = [vs EXCEPT !.shown = Some(Display(vs.status.val))]
    /\ UNCHANGED <<keyVars, addrVars, vaultVars>>

\* VaultStatus::from_str on the string to_string() gave.
ReparseStatus ==
    /\ vs.shown # None
    /\ vs.reparsed = None
    /\ vs' = [vs EXCEPT !.reparsed = FromStr(vs.shown.val)]
    /\ UNCHANGED <<keyVars, addrVars, vaultVars>>

\* `status as u32`.
EncodeStatus ==
    /\ vs.status # None
    /\ vs.code = None
    /\ vs' = [vs EXCEPT !.code = Some(Discriminant(vs.status.val))]
    /\ UNCHANGED <<keyVars, addrVars, vaultVars>>

\* VaultStatus::try_from on the code.
DecodeStatus ==
    /\ vs.code # None
    /\ vs.decoded = None
    /\ vs' = [vs EXCEPT !.decoded = TryFromU32(vs.code.val)]
    /\ UNCHANGED <<keyVars, addrVars, vaultVars>>

\* VaultStatus::from_str on any string.
ParseText(t) ==
    /\ vs' = [VsEmpty EXCEPT !.text = Some(t), !.parsed = FromStr(t)]
    /\ UNCHANGED <<keyVars, addrVars, vaultVars>>

\* VaultStatus::try_from on any code.
ConvertNumber(n) ==
    /\ vs' = [VsEmpty EXCEPT !.number = Some(n), !.converted = TryFromU32(n)]
    /\ UNCHANGED <<keyVars, addrVars, vaultVars>>

(***************************************************************************)
(* read_or_create_noise_key and RevaultD::from_config                      *)
(***************************************************************************)

\* The size of a Noise private key: NoisePrivKey([0; 32]).
KeyLen == 32

\* How many different keys the generator can return in the model.
NumKeys == 2

\* How many bytes beyond KeyLen a file found on disk may hold.
MaxExtra == 1

\* write_all may need more than one write(2): the model lets the first one
\* stop after this many bytes.
FirstWrite == 16

\* How many invocations of from_config the model runs.
MaxProcs == 2

Procs == 1..MaxProcs

Repeat(b, n) == [i \in 1..n |-> b]

\* NoisePrivKey([0; 32])
ZeroKey == Repeat(0, KeyLen)

\* sodiumoxide's gen_keypair().1: 32 random bytes. The model draws them from
\* NumKeys keys; all-zero has probability 2^-256 and is left out.
GenKeys == { Repeat(b, KeyLen) : b \in 1..NumKeys }

\* A key whose only non-zero byte is the last one.
LastByteKey == [i \in 1..KeyLen |-> IF i = KeyLen THEN 1 ELSE 0]

Take(s, n) == SubSeq(s, 1, IF n < Len(s) THEN n ELSE Len(s))

NoFile == [kind |-> "NoFile"]
File(m, c) == [kind |-> "File", mode |-> m, content |-> c]

\* Owner-read-only, 0o400 (line 189), and owner read-write, 0o600.
Mode0400 == 4 * 64
Mode0600 == 6 * 64

\* What may lie at the path before the first invocation: nothing, or a file
\* of any length from 0 to KeyLen + MaxExtra.
FoundLens == {0, FirstWrite, KeyLen - 1, KeyLen} \cup (KeyLen + 1 .. KeyLen + MaxExtra)

FoundContents ==
    { Take(k \o Repeat(7, MaxExtra), n) :
        k \in GenKeys \cup {ZeroKey, LastByteKey}, n \in FoundLens }

InitFiles ==
    {NoFile} \cup { File(m, c) : m \in {Mode0400, Mode0600}, c \in FoundContents }

\* ChildNumber (bitcoin::util::bip32) and its conversions from and into u32:
\* the top bit of the u32 says "hardened", the bits below it are the index.
\* The library's index has 31 bits; the model's has IndexBits, so that every
\* index can be visited (and TLC's integers hold the sums).
IndexBits == 7

HardenedBit == 2 ^ IndexBits
U32 == 2 ^ (IndexBits + 1)

ChildNumberFrom(n) ==
    IF n >= HardenedBit
    THEN [kind |-> "Hardened", index |-> n - HardenedBit]
    ELSE [kind |-> "Normal", index |-> n]

ChildNumberInto(c) ==
    IF c.kind = "Hardened" THEN c.index + HardenedBit ELSE c.index

\* The Config: which role sections it holds.
Configs == [manager_config : BOOLEAN, stakeholder_config : BOOLEAN]

\* The outcome of an invocation.
NotReturned == [kind |-> "NotReturned"]
Panic(m) == [kind |-> "Panic", msg |-> m]
Killed == [kind |-> "Killed"]

\* RevaultD, as from_config builds it (lines 370-396): the fields the model
\* follows.
NewRevaultD(c, k) ==
    [our_stk_xpub |-> IF c.stakeholder_config THEN Some("stk_xpub") ELSE None,
     our_man_xpub |-> IF c.manager_config THEN Some("man_xpub") ELSE None,
     noise_secret |-> k,
     current_unused_index |-> ChildNumberFrom(0),
     derivation_index_map |-> {}]

is_stakeholder(r) == r.our_stk_xpub # None
is_manager(r) == r.our_man_xpub # None

\* curve25519 scalarmult_base clamps the scalar (clears the low 3 bits of the
\* first byte, clears bit 7 and sets bit 6 of the last byte) and multiplies
\* the base point by it: the public key is a function of the clamped scalar.
Clamp(k) ==
    [i \in 1..KeyLen |->
        IF i = 1 THEN k[i] - (k[i] % 8)
        ELSE IF i = KeyLen THEN (k[i] % 64) + 64
        ELSE k[i]]

noise_pubkey(r) == [curve25519_base_times |-> Clamp(r.noise_secret)]

RolesAsserted_Dropped(c) == TRUE

\* The assert of line 317.
RolesAsserted(c) == c.manager_config \/ c.stakeholder_config

\* OpenOptions write(true).create_new(true).mode(0o400).open(path): O_EXCL,
\* so it fails when the file exists. The new file is empty.
OpenCreate_NoExcl(f) ==
    IF f = NoFile
    THEN [ok |-> TRUE, file |-> File(Mode0400, <<>>)]
    ELSE [ok |-> TRUE, file |-> f]

OpenCreateNew(f) ==
    IF f = NoFile
    THEN [ok |-> TRUE, file |-> File(Mode0400, <<>>)]
    ELSE [ok |-> FALSE, file |-> f]

\* write(2) of bytes at offset pos of a file's content.
WriteAt(content, pos, bytes) ==
    [i \in 1 .. (IF pos + Len(bytes) > Len(content) THEN pos + Len(bytes) ELSE Len(content)) |->
        IF i > pos /\ i <= pos + Len(bytes) THEN bytes[i - pos] ELSE content[i]]

\* read_exact(&mut noise_secret.0) on a freshly opened file: the first KeyLen
\* bytes, or an UnexpectedEof error when the file holds fewer.
ReadExact_OneShort(content) ==
    IF Len(content) < KeyLen
    THEN [kind |-> "Err", err |-> "ReadingKey", cause |-> "UnexpectedEof"]
    ELSE Ok([i \in 1..KeyLen |-> IF i < KeyLen THEN content[i] ELSE 0])

ReadExact_SizeChecked(content) ==
    IF Len(content) # KeyLen
    THEN [kind |-> "Err", err |-> "InvalidKeySize", cause |-> "none"]
    ELSE Ok(content)

ReadExact_Partial(content) ==
    Ok([i \in 1..KeyLen |-> IF i <= Len(content) THEN content[i] ELSE 0])

ReadExact(content) ==
    IF Len(content) < KeyLen
    THEN [kind |-> "Err", err |-> "ReadingKey", cause |-> "UnexpectedEof"]
    ELSE Ok(SubSeq(content, 1, KeyLen))

\* A KeyError, with the io::Error it wraps.
KeyError(variant, cause) == [kind |-> "Err", err |-> variant, cause |-> cause]

\* Lines 204-205: assert!(noise_secret.0 != [0; 32]); Ok(noise_secret)
AssertedKey(k) ==
    IF k = ZeroKey
    THEN Panic("assertion failed: noise_secret.0 != [0; 32]")
    ELSE Ok(k)

Returns(p, r) ==
    /\ ret' = [ret EXCEPT ![p] = r]
    /\ pc' = [pc EXCEPT ![p] = "done"]

KeyReturns(p, r) ==
    /\ key_ret' = [key_ret EXCEPT ![p] = r]
    /\ pc' = [pc EXCEPT ![p] = "key_returned"]

\* from_config, lines 314-345: the role assert, the descriptors, the data
\* directory. descriptors_ok: whether the three descriptor constructors accept
\* the configured keys; io_ok: whether creating and canonicalizing the data
\* directory succeeds.
FromConfigEnter(p, descriptors_ok, io_ok) ==
    /\ pc[p] = "idle"
    /\ IF ~RolesAsserted(cfg)
       THEN /\ Returns(p, Panic("assertion failed: our_man_xpub.is_some() || our_stk_xpub.is_some()"))
            /\ UNCHANGED dir_exists
       ELSE IF ~descriptors_ok
       THEN /\ Returns(p, Err("revault_tx::Error"))
            /\ UNCHANGED dir_exists
       ELSE IF ~io_ok
       THEN /\ Returns(p, Err(IF dir_exists THEN "io::Error" ELSE "ConfigError"))
            /\ UNCHANGED dir_exists
       ELSE /\ dir_exists' = TRUE
            /\ pc' = [pc EXCEPT ![p] = "exists"]
            /\ UNCHANGED ret
    /\ UNCHANGED <<file, file0, cfg, secret, wpos, key_ret, creators, late, statusVars, addrVars, vaultVars>>

\* An invocation created the file and stopped (a failed write, or the process
\* was killed) before the file held all its bytes.
StoppedShort ==
    /\ file # NoFile
    /\ Len(file.content) < KeyLen
    /\ \E p \in creators :
          \/ pc[p] = "crashed"
          \/ key_ret[p] = KeyError("WritingKey", "io")

\* read_or_create_noise_key, line 175: the exists() test; on the creating
\* branch, gen_keypair (line 180) returns k.
CheckExists(p, k) ==
    /\ pc[p] = "exists"
    /\ IF file = NoFile
       THEN /\ secret' = [secret EXCEPT ![p] = k]
            /\ pc' = [pc EXCEPT ![p] = "create"]
       ELSE /\ secret' = [secret EXCEPT ![p] = ZeroKey]
            /\ pc' = [pc EXCEPT ![p] = "open"]
    /\ late' = IF StoppedShort THEN late \cup {p} ELSE late
    /\ UNCHANGED <<file, file0, dir_exists, cfg, key_ret, ret, wpos, creators, statusVars, addrVars, vaultVars>>

\* Line 192: options.open(secret_file).map_err(KeyError::WritingKey)?
CreateNew(p, io_ok) ==
    /\ pc[p] = "create"
    /\ LET o == OpenCreateNew(file) IN
       IF io_ok /\ o.ok
       THEN /\ file' = o.file
            /\ creators' = creators \cup {p}
            /\ wpos' = [wpos EXCEPT ![p] = 0]
            /\ pc' = [pc EXCEPT ![p] = "write"]
            /\ UNCHANGED key_ret
       ELSE /\ KeyReturns(p, KeyError("WritingKey", IF o.ok THEN "io" ELSE "AlreadyExists"))
            /\ UNCHANGED <<file, creators, wpos>>
    /\ UNCHANGED <<file0, dir_exists, cfg, secret, ret, late, statusVars, addrVars, vaultVars>>

\* Lines 193-194: one write(2) of write_all, of n bytes; after the last one,
\* the assert and the return of lines 204-205.
WriteAll(p, n) ==
    /\ pc[p] = "write"
    /\ n >= 1
    /\ wpos[p] + n <= KeyLen
    /\ file' = [file EXCEPT !.content =
                   WriteAt(file.content, wpos[p], SubSeq(secret[p], wpos[p] + 1, wpos[p] + n))]
    /\ wpos' = [wpos EXCEPT ![p] = wpos[p] + n]
    /\ IF wpos[p] + n = KeyLen
       THEN KeyReturns(p, AssertedKey(secret[p]))
       ELSE UNCHANGED <<pc, key_ret>>
    /\ UNCHANGED <<file0, dir_exists, cfg, secret, ret, creators, late, statusVars, addrVars, vaultVars>>

\* Lines 193-194: a write(2) fails.
WriteFail(p) ==
    /\ pc[p] = "write"
    /\ KeyReturns(p, KeyError("WritingKey", "io"))
    /\ UNCHANGED <<file, file0, dir_exists, cfg, secret, wpos, ret, creators, late, statusVars, addrVars, vaultVars>>

\* The process is killed while the file is open for writing.
Crash(p) ==
    /\ pc[p] = "write"
    /\ ret' = [ret EXCEPT ![p] = Killed]
    /\ pc' = [pc EXCEPT ![p] = "crashed"]
    /\ UNCHANGED <<file, file0, dir_exists, cfg, secret, wpos, key_ret, creators, late, statusVars, addrVars, vaultVars>>

\* Line 196: fs::File::open(secret_file).map_err(KeyError::ReadingKey)?
OpenRead(p, io_ok) ==
    /\ pc[p] = "open"
    /\ IF io_ok /\ file # NoFile
       THEN /\ pc' = [pc EXCEPT ![p] = "read"]
            /\ UNCHANGED key_ret
       ELSE KeyReturns(p, KeyError("ReadingKey", IF file = NoFile THEN "NotFound" ELSE "io"))
    /\ UNCHANGED <<file, file0, dir_exists, cfg, secret, wpos, ret, creators, late, statusVars, addrVars, vaultVars>>

\* Lines 197-199: read_exact(..).map_err(KeyError::ReadingKey)?, then the
\* assert and the return of lines 204-205.
ReadKey(p, io_ok) ==
    /\ pc[p] = "read"
    /\ LET r == ReadExact(file.content) IN
       IF ~io_ok
       THEN /\ KeyReturns(p, KeyError("ReadingKey", "io"))
            /\ UNCHANGED secret
       ELSE IF r.kind = "Err"
       THEN /\ KeyReturns(p, r)
            /\ UNCHANGED secret
       ELSE /\ secret' = [secret EXCEPT ![p] = r.val]
            /\ KeyReturns(p, AssertedKey(r.val))
    /\ UNCHANGED <<file, file0, dir_exists, cfg, wpos, ret, creators, late, statusVars, addrVars, vaultVars>>

\* from_config, lines 351-396: the ? on the key, the coordinator's address,
\* the RevaultD.
FromConfigReturn(p, host_ok) ==
    /\ pc[p] = "key_returned"
    /\ IF key_ret[p].kind # "Ok"
       THEN Returns(p, key_ret[p])
       ELSE IF ~host_ok
       THEN Returns(p, Err("AddrParseError"))
       ELSE Returns(p, Ok(NewRevaultD(cfg, key_ret[p].val)))
    /\ UNCHANGED <<file, file0, dir_exists, cfg, secret, wpos, key_ret, creators, late, statusVars, addrVars, vaultVars>>

WriteSizes == {FirstWrite, KeyLen - FirstWrite, KeyLen}

KeyStep(p) ==
    \/ \E d \in BOOLEAN, io \in BOOLEAN : FromConfigEnter(p, d, io)
    \/ \E k \in GenKeys : CheckExists(p, k)
    \/ \E io \in BOOLEAN : CreateNew(p, io)
    \/ \E n \in WriteSizes : WriteAll(p, n)
    \/ WriteFail(p)
    \/ Crash(p)
    \/ \E io \in BOOLEAN : OpenRead(p, io)
    \/ \E io \in BOOLEAN : ReadKey(p, io)
    \/ \E h \in BOOLEAN : FromConfigReturn(p, h)

(***************************************************************************)
(* The gap-limit address accessors                                         *)
(***************************************************************************)

\* How far current_unused_index moves in one update.
MaxStep == 2

\* The largest index an entry of derivation_index_map is inserted for.
MaxWatched == 1

gap_limit == 100

\* u32 addition as the release build does it (the sum exceeds u32 only from a
\* hardened current_unused_index, which the updates of the model never give).
U32Add(a, b) == (a + b) % U32

\* An Address: the descriptor derived at a child number.
Address(desc, child) == [descriptor |-> desc, child |-> child]

\* Address::script_pubkey, Address::from_script, Address::to_string.
script_pubkey(a) == [script_of |-> a]
from_script(s) == s.script_of
to_string(a) == [string_of |-> a]

vault_address(r, child) == Address("deposit", child)
unvault_address(r, child) == Address("unvault", child)

deposit_address(r) == vault_address(r, r.current_unused_index)

last_deposit_address_NoGap(r) ==
    vault_address(r, ChildNumberFrom(ChildNumberInto(r.current_unused_index)))

last_deposit_address(r) ==
    vault_address(r, ChildNumberFrom(U32Add(ChildNumberInto(r.current_unused_index), gap_limit)))

last_unvault_address(r) ==
    unvault_address(r, ChildNumberFrom(U32Add(ChildNumberInto(r.current_unused_index), gap_limit)))

\* all_deposit_addresses: the keys of derivation_index_map, as strings (a
\* HashMap's keys come in no particular order: a set).
all_deposit_addresses(r) ==
    { to_string(from_script(e.script)) : e \in r.derivation_index_map }

\* all_unvault_addresses: (0..raw_index + gap_limit()) mapped through
\* unvault_address(ChildNumber::from(i)).to_string(). A Rust range excludes
\* its end.
all_unvault_addresses(r) ==
    LET until == U32Add(ChildNumberInto(r.current_unused_index), gap_limit) IN
    [j \in 1..until |-> to_string(unvault_address(r, ChildNumberFrom(j - 1)))]

Range(f) == { f[x] : x \in DOMAIN f }

\* What deriving a descriptor at a child number and taking its address gives:
\* the address; at a hardened child number the xpubs cannot be derived, and the
\* library either panics (the expect of vault_address / unvault_address, or
\* one of its own) or returns an address, depending on its version.
DeriveOutcomes(a) ==
    IF a.child.kind = "Normal"
    THEN { Ok(a) }
    ELSE { Ok(a), Panic("hardened derivation from an xpub") }

NoAnswer == [op |-> "none"]

\* The chain watcher / the database move current_unused_index forward by k;
\* it stays a non-hardened index.
IncrementIndex(k) ==
    /\ LET raw == ChildNumberInto(revaultd.current_unused_index) IN
       /\ raw + k < HardenedBit
       /\ revaultd' = [revaultd EXCEPT !.current_unused_index = ChildNumberFrom(raw + k)]
    /\ answer' = NoAnswer
    /\ UNCHANGED <<statusVars, keyVars, vaultVars>>

\* The chain watcher records the deposit script of index i.
InsertWatched(i) ==
    /\ LET e == [script |-> script_pubkey(vault_address(revaultd, ChildNumberFrom(i))),
                 index |-> ChildNumberFrom(i)] IN
       /\ e \notin revaultd.derivation_index_map
       /\ revaultd' = [revaultd EXCEPT !.derivation_index_map = @ \cup {e}]
    /\ answer' = NoAnswer
    /\ UNCHANGED <<statusVars, keyVars, vaultVars>>

CallLastDepositAddress ==
    /\ \E o \in DeriveOutcomes(last_deposit_address(revaultd)) :
          answer' = [op |-> "last_deposit_address",
                     asked |-> last_deposit_address(revaultd).child, result |-> o]
    /\ UNCHANGED <<revaultd, statusVars, keyVars, vaultVars>>

CallLastUnvaultAddress ==
    /\ \E o \in DeriveOutcomes(last_unvault_address(revaultd)) :
          answer' = [op |-> "last_unvault_address",
                     asked |-> last_unvault_address(revaultd).child, result |-> o]
    /\ UNCHANGED <<revaultd, statusVars, keyVars, vaultVars>>

CallDepositAddress ==
    /\ \E o \in DeriveOutcomes(deposit_address(revaultd)) :
          answer' = [op |-> "deposit_address",
                     asked |-> deposit_address(revaultd).child, result |-> o]
    /\ UNCHANGED <<revaultd, statusVars, keyVars, vaultVars>>

CallAllDepositAddresses ==
    /\ answer' = [op |-> "all_deposit_addresses",
                  result |-> Ok(all_deposit_addresses(revaultd))]
    /\ UNCHANGED <<revaultd, statusVars, keyVars, vaultVars>>

\* The enumeration derives at every index of its range: when the range holds
\* a hardened index, the outcome is that of deriving there.
CallAllUnvaultAddresses ==
    /\ LET v == all_unvault_addresses(revaultd) IN
       \E o \in IF \E s \in Range(v) : s.string_of.child.kind = "Hardened"
                THEN { Ok(v), Panic("hardened derivation from an xpub") }
                ELSE { Ok(v) } :
          answer' = [op |-> "all_unvault_addresses", result |-> o]
    /\ UNCHANGED <<revaultd, statusVars, keyVars, vaultVars>>

(***************************************************************************)
(* One _Vault. The struct (lines 214-222) is all the source holds of it;   *)
(* the operations on it are those of the specification's state machine.    *)
(***************************************************************************)

Roles == {"stakeholder", "manager", "both"}

HoldsStakeholderKey(r) == r \in {"stakeholder", "both"}

NewVault(deposit_seen) ==
    [status |-> "Unconfirmed",
     vault_tx |-> IF deposit_seen THEN Some("DepositTransaction") ELSE None,
     emergency_tx |-> None,
     unvault_tx |-> None,
     cancel_tx |-> None,
     unvault_emergency_tx |-> None]

\* The statuses an emergency / an unvault-emergency can be broadcast from.
PreUnvault == {"Funded", "Secured", "Active"}
PostUnvault == {"Unvaulting", "Unvaulted", "Spendable"}

\* The unvault transaction is signed last: its signatures are exchanged once
\* the cancel and (for a stakeholder) the unvault-emergency ones are held.
CanStoreUnvault_Unordered(v, r) == v.status = "Secured"

CanStoreUnvault(v, r) ==
    /\ v.status = "Secured"
    /\ v.cancel_tx # None
    /\ HoldsStakeholderKey(r) => v.unvault_emergency_tx # None

\* The status transitions, each with the transaction that justifies it.
Justified(v, r, t) ==
    \/ v.status = "Unconfirmed" /\ t = "Funded"
    \/ v.status = "Funded" /\ t = "Secured"
          /\ (HoldsStakeholderKey(r) => v.emergency_tx # None)
    \/ v.status = "Secured" /\ t = "Active" /\ v.unvault_tx # None
    \/ v.status = "Active" /\ t = "Unvaulting" /\ v.unvault_tx # None
    \/ v.status = "Unvaulting" /\ t = "Unvaulted"
    \/ v.status = "Unvaulted" /\ t = "Spendable"
    \/ v.status = "Spendable" /\ t = "Spending"
    \/ v.status = "Spending" /\ t = "Spent"
    \/ v.status \in {"Active", "Unvaulting"} /\ t = "Canceling" /\ v.cancel_tx # None
    \/ v.status = "Canceling" /\ t = "Canceled"
    \/ v.status \in PreUnvault /\ t = "EmergencyVaulting" /\ v.emergency_tx # None
    \/ v.status = "EmergencyVaulting" /\ t = "EmergencyVaulted"
    \/ v.status \in PostUnvault /\ t = "UnvaultEmergencyVaulting"
          /\ v.unvault_emergency_tx # None
    \/ v.status = "UnvaultEmergencyVaulting" /\ t = "UnvaultEmergencyVaulted"

\* A reorganisation takes the deposit's confirmations away again.
Transitions_WithReorg(v, r) ==
    { t \in VaultStatus : Justified(v, r, t) \/ (v.status = "Funded" /\ t = "Unconfirmed") }

Transitions(v, r) == { t \in VaultStatus : Justified(v, r, t) }

\* The signature exchange stores a fully signed transaction.
StoreEmergencyTx ==
    /\ HoldsStakeholderKey(role)
    /\ vault.status = "Funded"
    /\ vault.emergency_tx = None
    /\ vault' = [vault EXCEPT !.emergency_tx = Some("EmergencyTransaction")]
    /\ UNCHANGED <<role, statusVars, keyVars, addrVars>>

StoreCancelTx ==
    /\ vault.status = "Secured"
    /\ vault.cancel_tx = None
    /\ vault' = [vault EXCEPT !.cancel_tx = Some("CancelTransaction")]
    /\ UNCHANGED <<role, statusVars, keyVars, addrVars>>

StoreUnvaultEmergencyTx ==
    /\ HoldsStakeholderKey(role)
    /\ vault.status = "Secured"
    /\ vault.unvault_emergency_tx = None
    /\ vault' = [vault EXCEPT !.unvault_emergency_tx = Some("UnvaultEmergencyTransaction")]
    /\ UNCHANGED <<role, statusVars, keyVars, addrVars>>

StoreUnvaultTx ==
    /\ CanStoreUnvault(vault, role)
    /\ vault.unvault_tx = None
    /\ vault' = [vault EXCEPT !.unvault_tx = Some("UnvaultTransaction")]
    /\ UNCHANGED <<role, statusVars, keyVars, addrVars>>

\* The chain watcher / the signature exchange move the vault to status t.
SetStatus(t) ==
    /\ t \in Transitions(vault, role)
    /\ vault' = [vault EXCEPT !.status = t]
    /\ UNCHANGED <<role, statusVars, keyVars, addrVars>>

(***************************************************************************)
(* The specifications                                                      *)
(***************************************************************************)

StatusIdle == vs = VsEmpty

KeyIdle ==
    /\ file = NoFile
    /\ file0 = NoFile
    /\ dir_exists = FALSE
    /\ pc = [p \in Procs |-> "idle"]
    /\ cfg = [manager_config |-> TRUE, stakeholder_config |-> TRUE]
    /\ secret = [p \in Procs |-> ZeroKey]
    /\ wpos = [p \in Procs |-> 0]
    /\ key_ret = [p \in Procs |-> NotReturned]
    /\ ret = [p \in Procs |-> NotReturned]
    /\ creators = {}
    /\ late = {}

AddrIdle ==
    /\ revaultd = NewRevaultD([manager_config |-> TRUE, stakeholder_config |-> TRUE],
                              Repeat(1, KeyLen))
    /\ answer = NoAnswer

VaultIdle ==
    /\ vault = NewVault(TRUE)
    /\ role = "both"

\* VaultStatus conversions.
InitStatus == StatusIdle /\ KeyIdle /\ AddrIdle /\ VaultIdle

NextStatus ==
    \/ \E s \in VaultStatus : LoadStatus(s)
    \/ ShowStatus
    \/ ReparseStatus
    \/ EncodeStatus
    \/ DecodeStatus
    \/ \E t \in ForeignStrings \cup { Display(s) : s \in VaultStatus } : ParseText(t)
    \/ \E n \in Codes : ConvertNumber(n)

SpecStatus == InitStatus /\ [][NextStatus]_vars

\* Invocations of from_config against one data directory.
InitKey ==
    /\ StatusIdle /\ AddrIdle /\ VaultIdle
    /\ file0 \in InitFiles
    /\ file = file0
    /\ dir_exists \in (IF file0 = NoFile THEN BOOLEAN ELSE {TRUE})
    /\ cfg \in Configs
    /\ pc = [p \in Procs |-> "idle"]
    /\ secret = [p \in Procs |-> ZeroKey]
    /\ wpos = [p \in Procs |-> 0]
    /\ key_ret = [p \in Procs |-> NotReturned]
    /\ ret = [p \in Procs |-> NotReturned]
    /\ creators = {}
    /\ late = {}

NextKey == \E p \in Procs : KeyStep(p)

SpecKey == InitKey /\ [][NextKey]_vars

\* The address accessors of a RevaultD.
InitAddr ==
    /\ StatusIdle /\ KeyIdle /\ VaultIdle
    /\ \E c \in { x \in Configs : RolesAsserted(x) } :
          revaultd = NewRevaultD(c, Repeat(1, KeyLen))
    /\ answer = NoAnswer

NextAddr ==
    \/ \E k \in 1..MaxStep : IncrementIndex(k)
    \/ \E i \in 0..MaxWatched : InsertWatched(i)
    \/ CallDepositAddress
    \/ CallLastDepositAddress
    \/ CallLastUnvaultAddress
    \/ CallAllDepositAddresses
    \/ CallAllUnvaultAddresses

SpecAddr == InitAddr /\ [][NextAddr]_vars

\* One vault.
InitVault ==
    /\ StatusIdle /\ KeyIdle /\ AddrIdle
    /\ role \in Roles
    /\ \E d \in BOOLEAN : vault = NewVault(d)

NextVault ==
    \/ StoreEmergencyTx
    \/ StoreCancelTx
    \/ StoreUnvaultEmergencyTx
    \/ StoreUnvaultTx
    \/ \E t \in VaultStatus : SetStatus(t)

SpecVault == InitVault /\ [][NextVault]_vars

(***************************************************************************)
(* Properties                                                              *)
(***************************************************************************)

\* C1: for each of the 15 statuses s, from_str(to_string(s)) = Ok(s) and
\* try_from(s as u32) = Ok(s), the code of s being its position 0..14 in the
\* declaration; to_string and the code are one-to-one on the statuses.
C1_RoundTrip ==
    /\ Cardinality(VaultStatus) = 15
    /\ vs.reparsed # None => vs.reparsed = Ok(vs.status.val)
    /\ vs.decoded # None => vs.decoded = Ok(vs.status.val)
    /\ vs.code # None => vs.code.val \in 0..14
    /\ \A s, t \in VaultStatus :
          s # t => Display(s) # Display(t) /\ Discriminant(s) # Discriminant(t)
    /\ vs.parsed # None /\ vs.parsed.kind = "Ok" => Display(vs.parsed.val) = vs.text.val
    /\ vs.converted # None /\ vs.converted.kind = "Ok" =>
          Discriminant(vs.converted.val) = vs.number.val

\* A status with a misspelt name and a code after the pipeline-order gap has
\* gone through both round trips.
C1_Witness ==
    /\ vs.status = Some("UnvaultEmergencyVaulted")
    /\ vs.reparsed = Ok("UnvaultEmergencyVaulted")
    /\ vs.decoded = Ok("UnvaultEmergencyVaulted")

IsPrefix(a, b) == Len(a) <= Len(b) /\ SubSeq(b, 1, Len(a)) = a

\* C2: a file that exists is never replaced and none of its bytes is ever
\* overwritten; starting with no file, at most one invocation creates the
\* file, an invocation that reaches the creation step when the file exists
\* fails with WritingKey and leaves the file as it is, and all invocations
\* that return successfully return the same key.
C2_NoOverwrite ==
    /\ [](file0 = NoFile =>
            /\ Cardinality(creators) <= 1
            /\ \A p, q \in Procs :
                  (ret[p].kind = "Ok" /\ ret[q].kind = "Ok")
                      => ret[p].val.noise_secret = ret[q].val.noise_secret)
    /\ [][ /\ file # NoFile =>
                /\ file' # NoFile
                /\ file'.mode = file.mode
                /\ IsPrefix(file.content, file'.content)
           /\ \A p \in Procs :
                (pc[p] = "create" /\ file # NoFile /\ pc'[p] # "create") =>
                    /\ key_ret'[p].kind = "Err"
                    /\ key_ret'[p].err = "WritingKey"
                    /\ file' = file ]_vars

\* Two invocations raced from no file: one created the file and returned its
\* key, the other found the file at its creation step and failed.
C2_Witness ==
    /\ file0 = NoFile
    /\ \E p, q \in Procs :
          /\ p \in creators
          /\ ret[p].kind = "Ok"
          /\ q \notin creators
          /\ key_ret[q] = KeyError("WritingKey", "AlreadyExists")
          /\ ret[q] = key_ret[q]

\* C3: starting with no file, a run that returns has left a file of mode 0400
\* holding exactly the 32 bytes it returns, which are not all zero, whether it
\* created the file or read it; once a run has returned a key the file never
\* changes; all runs that return hold the same public key.
C3_IdentityRoundTrip ==
    /\ [](file0 = NoFile =>
            \A p \in Procs :
                ret[p].kind = "Ok" =>
                    /\ file # NoFile
                    /\ file.mode = Mode0400
                    /\ Len(file.content) = KeyLen
                    /\ file.content = ret[p].val.noise_secret
                    /\ ret[p].val.noise_secret # ZeroKey
                    /\ \A q \in Procs :
                          ret[q].kind = "Ok" =>
                              noise_pubkey(ret[q].val) = noise_pubkey(ret[p].val))
    /\ [][ (\E p \in Procs : ret[p].kind = "Ok") => file' = file ]_vars

\* A first run created the file, a later run read it, both returned.
C3_Witness ==
    /\ file0 = NoFile
    /\ \E p, q \in Procs :
          /\ p \in creators /\ ret[p].kind = "Ok"
          /\ q \notin creators /\ ret[q].kind = "Ok"
          /\ noise_pubkey(ret[q].val) = noise_pubkey(ret[p].val)

\* C4 as claimed: with a file at the path whose length is not 32 bytes,
\* read_or_create_noise_key fails with InvalidKeySize.
C4_InvalidKeySize ==
    \A p \in Procs :
        (file0 # NoFile /\ Len(file0.content) # KeyLen /\ key_ret[p] # NotReturned) =>
            /\ key_ret[p].kind = "Err"
            /\ key_ret[p].err = "InvalidKeySize"

\* C4 as amended: with a file at the path, every failure of
\* read_or_create_noise_key (an I/O failure, a file shorter than 32 bytes) is
\* a ReadingKey error, never InvalidKeySize; a file of 32 bytes or more gives
\* its first 32 bytes as the key (the assert aborts when they are all zero).
C4_ReadingKey ==
    \A p \in Procs :
        (file0 # NoFile /\ key_ret[p] # NotReturned) =>
            /\ key_ret[p].kind = "Err" => key_ret[p].err = "ReadingKey"
            /\ Len(file0.content) < KeyLen => key_ret[p].kind = "Err"
            /\ key_ret[p].kind = "Ok" =>
                  /\ Len(file0.content) >= KeyLen
                  /\ key_ret[p].val = SubSeq(file0.content, 1, KeyLen)
                  /\ key_ret[p].val # ZeroKey
            /\ key_ret[p].kind = "Panic" =>
                  /\ Len(file0.content) >= KeyLen
                  /\ SubSeq(file0.content, 1, KeyLen) = ZeroKey

\* A file longer than 32 bytes was read and its first 32 bytes returned.
C4_Witness ==
    /\ file0 # NoFile
    /\ Len(file0.content) > KeyLen
    /\ \E p \in Procs : key_ret[p] = Ok(SubSeq(file0.content, 1, KeyLen))

\* A file shorter than 32 bytes was read: ReadingKey.
C4_ShortWitness ==
    /\ file0 # NoFile
    /\ Len(file0.content) = KeyLen - 1
    /\ \E p \in Procs : key_ret[p] = KeyError("ReadingKey", "UnexpectedEof")

\* C8 as claimed: with neither role configured from_config returns an error
\* value; a returned context has at least one role.
C8_ConfigError ==
    \A p \in Procs :
        /\ (~cfg.manager_config /\ ~cfg.stakeholder_config /\ pc[p] = "done")
              => ret[p].kind = "Err"
        /\ ret[p].kind = "Ok" => is_stakeholder(ret[p].val) \/ is_manager(ret[p].val)

\* C8 as amended: with neither role configured from_config aborts on its
\* assertion, returning nothing; a returned context has at least one role.
C8_AssertsRole ==
    \A p \in Procs :
        /\ (~cfg.manager_config /\ ~cfg.stakeholder_config /\ pc[p] # "idle")
              => /\ pc[p] = "done"
                 /\ ret[p].kind = "Panic"
        /\ ret[p].kind = "Ok" => is_stakeholder(ret[p].val) \/ is_manager(ret[p].val)

\* from_config was called with neither role and aborted.
C8_Witness ==
    /\ ~cfg.manager_config /\ ~cfg.stakeholder_config
    /\ \E p \in Procs : pc[p] = "done" /\ ret[p].kind = "Panic"

RawIndex == ChildNumberInto(revaultd.current_unused_index)

\* C5 as claimed: when current_unused_index + gap_limit() is 2^31 or more,
\* last_deposit_address, last_unvault_address and all_unvault_addresses fail
\* explicitly: no address comes back and no derivation at a hardened child
\* number is asked of the descriptor.
C5_FailsAtHardened ==
    (/\ answer.op \in {"last_deposit_address", "last_unvault_address"}
     /\ RawIndex + gap_limit >= HardenedBit)
        => /\ answer.result.kind = "Err"
           /\ answer.asked.kind # "Hardened"

\* The same for the enumeration, whose last index is one below the sum.
C5_EnumerationFailsAtHardened ==
    (/\ answer.op = "all_unvault_addresses"
     /\ RawIndex + gap_limit > HardenedBit)
        => answer.result.kind = "Err"

Through(desc, n) == { to_string(Address(desc, ChildNumberFrom(i))) : i \in 0..n }

\* C7 as claimed: all_deposit_addresses() and all_unvault_addresses() return
\* exactly the addresses at the indices 0 through current_unused_index +
\* gap_limit(), the last address among them, whatever derivation_index_map
\* holds.
C7_FullRange ==
    /\ (answer.op = "all_deposit_addresses") =>
          /\ answer.result.val = Through("deposit", RawIndex + gap_limit)
          /\ to_string(last_deposit_address(revaultd)) \in answer.result.val
    /\ (answer.op = "all_unvault_addresses" /\ answer.result.kind = "Ok") =>
          /\ Range(answer.result.val) = Through("unvault", RawIndex + gap_limit)
          /\ to_string(last_unvault_address(revaultd)) \in Range(answer.result.val)

\* The deposit half of C7 alone.
C7_DepositFullRange ==
    (answer.op = "all_deposit_addresses") =>
        answer.result.val = Through("deposit", RawIndex + gap_limit)

\* The unvault half of C7 alone.
C7_UnvaultFullRange ==
    (answer.op = "all_unvault_addresses" /\ answer.result.kind = "Ok") =>
        to_string(last_unvault_address(revaultd)) \in Range(answer.result.val)

C9_ManagerWitness ==
    /\ vault.status = "Active"
    /\ role = "manager"

Pipeline ==
    << "Unconfirmed", "Funded", "Secured", "Active", "Unvaulting", "Unvaulted",
       "Spendable", "Spending", "Spent" >>

InPipeline(s) == \E i \in 1..Len(Pipeline) : Pipeline[i] = s
Stage(s) == CHOOSE i \in 1..Len(Pipeline) : Pipeline[i] = s

Final == {"Canceled", "EmergencyVaulted", "UnvaultEmergencyVaulted", "Spent"}

\* C10: a step never takes a vault to an earlier status of the pipeline, a
\* vault that left the pipeline for the cancel or an emergency branch never
\* comes back to it, and a vault in Canceled, EmergencyVaulted,
\* UnvaultEmergencyVaulted or Spent keeps its status.
C10_Monotonic ==
    [][ /\ (InPipeline(vault.status) /\ InPipeline(vault'.status))
              => Stage(vault.status) <= Stage(vault'.status)
        /\ ~InPipeline(vault.status) => ~InPipeline(vault'.status)
        /\ vault.status \in Final => vault'.status = vault.status ]_vars

\* A vault went down the pipeline and ended in the cancel branch.
C10_Witness == vault.status = "Canceled" /\ vault.unvault_tx # None

\* C11: once an invocation has created the secret file and stopped (a write
\* error or a crash) before all 32 bytes were written, the file is never
\* written again and stays short, and every invocation that starts afterwards
\* creates nothing, generates no key, and returns a ReadingKey error, which
\* from_config hands to its caller.
C11_StaysFailed ==
    /\ [](\A q \in late :
            /\ q \notin creators
            /\ secret[q] = ZeroKey
            /\ pc[q] \in {"open", "read", "key_returned", "done"}
            /\ key_ret[q] # NotReturned
                  => (key_ret[q].kind = "Err" /\ key_ret[q].err = "ReadingKey")
            /\ pc[q] = "done" => ret[q] = key_ret[q])
    /\ [][StoppedShort => (file' = file /\ StoppedShort')]_vars

\* A first invocation was killed after its first write(2); a later one ran to
\* the end and its caller got the ReadingKey error of the short read.
C11_Witness ==
    /\ \E p \in creators : pc[p] = "crashed"
    /\ Len(file.content) = FirstWrite
    /\ \E q \in late :
          /\ pc[q] = "done"
          /\ ret[q] = KeyError("ReadingKey", "UnexpectedEof")

\* The first invocation stopped on a write error instead, with nothing written.
C11_WriteErrorWitness ==
    /\ \E p \in creators : ret[p] = KeyError("WritingKey", "io")
    /\ file # NoFile
    /\ Len(file.content) = 0
    /\ \E q \in late : ret[q] = KeyError("ReadingKey", "UnexpectedEof")

====
